---- MODULE Spec2Model ----
(***************************************************************************)
(* A model of script.js of movie-mosaic-app: the face tracker              *)
(* (updateFaces), the frame loop (loop and the video listeners), the click *)
(* handler (handleCanvasClick), the model loader (init) and the recorder.  *)
(*                                                                         *)
(* Geometry.  Box coordinates are integers.  A centre is x + width/2, so   *)
(* the model keeps every centre doubled (2x + width) and every distance as *)
(* four times its square: for the small integers of the model              *)
(* Math.hypot(a) < Math.hypot(b) holds exactly when the squares compare    *)
(* that way, and hypot < 1.5 * max holds exactly when 4 * dist^2 is less   *)
(* than 9 * max^2.                                                         *)
(***************************************************************************)
EXTENDS Integers, Sequences, FiniteSets

VARIABLES
    isModelLoaded,   \* script.js:11
    overlayHidden,   \* loadingOverlay carries the class 'hidden'
    alerted,         \* init's alert() was shown (the load failed)
    videoSrc,        \* video.src: "none" or the uploaded file
    isVideoReady,    \* script.js:12, set by onVideoLoaded
    metadataDue,     \* a loadedmetadata event is still to come for video.src
    paused,          \* video.paused
    ended,           \* video.ended
    detecting,       \* loop() calls suspended at the await of line 102, net loaded
    failing,         \* loop() calls whose detector call was made on an unloaded net
    rafLive,         \* the frame request whose handle animationId holds is pending
    rafOrphans,      \* pending frame requests whose handle animationId lost
    faces,           \* script.js:14
    canvas,          \* the boxes that carry a mosaic on the output canvas
    prevFaces,       \* history of the tracker's specification: updateFaces' input
    detections,      \* history: the detections of the last updateFaces
    lost,            \* history: boxes of the switched-off faces dropped so far
    painted,         \* history of the compositor's specification: per surface,
                     \* the pixels the last drawMosaics wrote
    pointer,         \* history of the click handler's specification: the
                     \* mousedown event and the canvas's client rectangle
    last,            \* history: the operation that acted last
    isRecording,     \* script.js:17
    mediaRecorder,   \* script.js:15: 0 (undefined) or the recorder's number
    recorderOptions, \* how each recorder was constructed
    recorderState,   \* each recorder's state attribute
    stopTasks,       \* recorders stopped whose dataavailable/stop task is queued
    recordedChunks,  \* script.js:16
    artifact,        \* the blob behind downloadBtn.href: its chunks
    artifactOf,      \* history: the recorder whose stop built the artifact
    delivered,       \* history: per recorder, the non-empty chunks it delivered
    downloadDisabled \* downloadBtn.disabled

loadVars  == <<isModelLoaded, overlayHidden, alerted>>
videoVars == <<videoSrc, isVideoReady, metadataDue, paused, ended>>
loopVars  == <<detecting, failing, rafLive, rafOrphans>>
faceVars  == <<faces, canvas, prevFaces, detections, lost, painted, pointer>>
recVars   == <<isRecording, mediaRecorder, recorderOptions, recorderState, stopTasks,
               recordedChunks, artifact, artifactOf, delivered, downloadDisabled>>
vars      == <<loadVars, videoVars, loopVars, faceVars, last, recVars>>

----------------------------------------------------------------------------
(* Bounds *)

\* Box corners lie in 0..MaxCoord (x) and 0..MaxRow (y).
MaxCoord == 2
MaxRow == 0
\* Box widths and heights lie in 1..MaxSize.
MaxSize == 2
\* The detector returns at most MaxFaces boxes for a frame.
MaxFaces == 2

Max(a, b) == IF a >= b THEN a ELSE b

\* The boxes of the tracker's specification.
TrackBoxes ==
    [x : 0..MaxCoord, y : 0..MaxRow, width : 1..MaxSize, height : 1..MaxSize]

\* The boxes the detector reports in the frame loop's specification: unit
\* boxes on one row, so that neighbours match and the outer two do not.
FrameBoxes ==
    {b \in TrackBoxes : b.y = 0 /\ b.width = 1 /\ b.height = 1}

SeqsUpTo(S, n) == UNION {[1..k -> S] : k \in 0..n}

FaceRecords(B) == [box : B, isMosaicOn : BOOLEAN]

----------------------------------------------------------------------------
(* The face tracker: updateFaces, script.js:113-150 *)

\* Twice the centre of a box (lines 117-118, 125-126).
CenterX2(box) == 2 * box.x + box.width
CenterY2(box) == 2 * box.y + box.height

\* Four times the square of Math.hypot of the centre differences (line 127).
Dist2(a, b) ==
    (CenterX2(a) - CenterX2(b)) * (CenterX2(a) - CenterX2(b))
    + (CenterY2(a) - CenterY2(b)) * (CenterY2(a) - CenterY2(b))

\* The for loop of lines 121-133 from face i on: the index of the closest
\* face so far (0 is null, whose minDist is Infinity); a later face replaces
\* it only when strictly closer.
RECURSIVE ClosestFrom(_, _, _, _)
ClosestFrom(box, fs, i, closest) ==
    IF i > Len(fs) THEN closest
    ELSE IF closest = 0 \/ Dist2(box, fs[i].box) < Dist2(box, fs[closest].box)
         THEN ClosestFrom(box, fs, i + 1, i)
         ELSE ClosestFrom(box, fs, i + 1, closest)

Closest(box, fs) == ClosestFrom(box, fs, 1, 0)

\* Mutant: a face at the threshold's distance matches too.
AtMostThreshold(d2, box) ==
    d2 <= 9 * Max(box.width, box.height) * Max(box.width, box.height)

\* minDist < MATCH_THRESHOLD with MATCH_THRESHOLD = max(width, height) * 1.5
\* (lines 136, 139), on four times the squared distance.
UnderThreshold(d2, box) ==
    d2 < 9 * Max(box.width, box.height) * Max(box.width, box.height)

\* Mutant: the default is off.
DefaultMosaicOff == FALSE

\* let isMosaicOn = true (line 138).
DefaultMosaicOn == TRUE

\* Mutant: the closest face's toggle is never carried over.
NeverInherited(box, fs) == DefaultMosaicOn

\* Lines 138-141: the toggle of the tracked face made for a detection.
InheritedToggle(box, fs) ==
    LET closest == Closest(box, fs)
    IN  IF closest # 0 /\ UnderThreshold(Dist2(box, fs[closest].box), box)
        THEN fs[closest].isMosaicOn
        ELSE DefaultMosaicOn

\* Mutant: a grace period, the previous faces no detection is within reach
\* of are kept after the detections'.
updateFacesWithGrace(dets, fs) ==
    LET Kept(f) == \A i \in 1..Len(dets) : ~UnderThreshold(Dist2(dets[i], f.box), dets[i])
    IN  [i \in 1..Len(dets) |->
            [box |-> dets[i], isMosaicOn |-> InheritedToggle(dets[i], fs)]]
        \o SelectSeq(fs, Kept)

\* Mutant: a matched face is taken out of the pool, so a later detection
\* that has it nearest takes the default.
updateFacesExclusive(dets, fs) ==
    [i \in 1..Len(dets) |->
        [box |-> dets[i],
         isMosaicOn |->
            IF \E j \in 1..(i - 1) :
                  /\ Closest(dets[j], fs) = Closest(dets[i], fs)
                  /\ Closest(dets[j], fs) # 0
                  /\ UnderThreshold(Dist2(dets[j], fs[Closest(dets[j], fs)].box), dets[j])
            THEN DefaultMosaicOn
            ELSE InheritedToggle(dets[i], fs)]]

\* detections.map(...) of lines 115-147; line 149 assigns it to faces.
updateFaces(dets, fs) ==
    [i \in 1..Len(dets) |->
        [box |-> dets[i], isMosaicOn |-> InheritedToggle(dets[i], fs)]]

----------------------------------------------------------------------------
(* The state after the script has run: lines 11-17, init() suspended at    *)
(* its await, no video chosen.                                             *)

NoOp == [op |-> "none", marks |-> {}]

\* The surfaces drawImage reads or writes: the video element (line 2), the
\* offscreen canvas (line 153) and the output canvas (line 3).
Surfaces == {"video", "mosaicCanvas", "canvas"}

NoPaint == [s \in Surfaces |-> {}]

InitOthers ==
    /\ isModelLoaded = FALSE
    /\ overlayHidden = FALSE
    /\ alerted = FALSE
    /\ videoSrc = "none"
    /\ isVideoReady = FALSE
    /\ metadataDue = FALSE
    /\ paused = TRUE
    /\ ended = FALSE
    /\ detecting = 0
    /\ failing = 0
    /\ rafLive = FALSE
    /\ rafOrphans = 0
    /\ canvas = {}
    /\ prevFaces = <<>>
    /\ detections = <<>>
    /\ lost = {}
    /\ painted = NoPaint
    /\ pointer = <<>>
    /\ last = NoOp
    /\ isRecording = FALSE
    /\ mediaRecorder = 0
    /\ recorderOptions = <<>>
    /\ recorderState = <<>>
    /\ stopTasks = <<>>
    /\ recordedChunks = <<>>
    /\ artifact = <<>>
    /\ artifactOf = 0
    /\ delivered = <<>>
    /\ downloadDisabled = TRUE

Init ==
    /\ faces = <<>>
    /\ InitOthers

----------------------------------------------------------------------------
(* Bounds of the frame loop *)

\* At most MaxLoops loop() iterations exist at once (suspended at the
\* detector or waiting as frame requests): play is not pressed beyond that.
MaxLoops == 2

\* The files the user can pick.
Files == {"clipA", "clipB"}

\* canvas.width and canvas.height (lines 76-77): the video's size, large
\* enough for every box.
CanvasWidth == MaxCoord + MaxSize
CanvasHeight == MaxRow + MaxSize

\* canvas.getBoundingClientRect(): the canvas shown at its own size or at
\* half of it, one pixel off the page's origin.
DisplayRects ==
    {[left |-> 1, top |-> 1, width |-> CanvasWidth \div k, height |-> CanvasHeight \div k] :
        k \in 1..2}

\* The pointer positions of a mousedown on the canvas shown at rect.
ClientPoints(rect) ==
    [clientX : rect.left..(rect.left + rect.width),
     clientY : rect.top..(rect.top + rect.height)]

----------------------------------------------------------------------------
(* History *)

Op(name) == [op |-> name, marks |-> {}]

\* The detections with no previous face under the threshold.
Unmatched(dets, fs) ==
    {i \in 1..Len(dets) :
        \A k \in 1..Len(fs) : ~UnderThreshold(Dist2(dets[i], fs[k].box), dets[i])}

\* The previous faces that some detection of this tick takes its toggle from.
Claimed(dets, fs) ==
    {k \in 1..Len(fs) :
        \E i \in 1..Len(dets) :
            /\ Closest(dets[i], fs) = k
            /\ UnderThreshold(Dist2(dets[i], fs[k].box), dets[i])}

\* The boxes of the switched-off faces this tick drops.
DroppedOff(dets, fs) ==
    {fs[k].box : k \in {j \in 1..Len(fs) : ~fs[j].isMosaicOn} \ Claimed(dets, fs)}

----------------------------------------------------------------------------
(* The compositor: drawMosaics, script.js:156-190.  The canvas is the set  *)
(* of boxes that carry a mosaic over the raw frame drawn last.             *)

\* Mutant: every tracked face is drawn, whatever its toggle.
CompositedAll(fs) == {fs[i].box : i \in 1..Len(fs)}

\* faces.forEach(face => { if (!face.isMosaicOn) return; ... }).
Composited(fs) == {fs[i].box : i \in {j \in 1..Len(fs) : fs[j].isMosaicOn}}

drawMosaics(cv, fs) == cv \cup Composited(fs)

\* ctx.drawImage(video, 0, 0, canvas.width, canvas.height): the raw frame.
RawFrame == {}

----------------------------------------------------------------------------
(* The compositor on pixels.  Pixel <<px, py>> is the unit square with the  *)
(* corners (px, py) and (px + 1, py + 1); a draw writes a pixel when the    *)
(* drawn region covers a part of it of positive area.                      *)

\* Box sizes on which the ellipse covers the whole box (1), cuts its
\* corners, and differs between the axes.
PixelSizes == {1, 2 * MaxSize, 3 * MaxSize}

PixelBoxes == [x : 0..MaxCoord, y : 0..MaxRow, width : PixelSizes, height : PixelSizes]

\* The pixels of a surface: one column and one row more than any box reaches.
Pixels == (0..(MaxCoord + 3 * MaxSize)) \X (0..(MaxRow + 3 * MaxSize))

\* Twice the distance from the coordinate c (given doubled) to pixel
\* column or row p, 0 when c lies in it.
Gap2(c2, p) == Max(0, Max(2 * p - c2, c2 - (2 * p + 2)))

\* The destination rectangle (dx, dy, dw, dh) of a drawImage.
RectPixels(dx, dy, dw, dh) ==
    {p \in Pixels : /\ p[1] >= dx /\ p[1] < dx + dw
                    /\ p[2] >= dy /\ p[2] < dy + dh}

\* ctx.ellipse(x + width / 2, y + height / 2, width / 2 * 0.8,
\* height / 2 * 1.0, ...) and ctx.clip(), lines 182-184: the pixels the
\* ellipse reaches into.  With the radii doubled, 4 * width / 5 and height,
\* (gx / (4w/5))^2 + (gy / h)^2 < 1 is the inequality below.
ClipEllipse(box) ==
    {p \in Pixels :
        LET gx == Gap2(2 * box.x + box.width, p[1])
            gy == Gap2(2 * box.y + box.height, p[2])
        IN  25 * gx * gx * box.height * box.height
            + 16 * gy * gy * box.width * box.width
            < 16 * box.width * box.width * box.height * box.height}

\* Math.ceil(n * 0.1), lines 170-171.
Shrunk(n) == (n + 9) \div 10

\* Mutant: the mosaic is drawn back without the clip.
DrawCallsUnclipped(box) ==
    << [dst |-> "mosaicCanvas", src |-> "video",
        at |-> RectPixels(0, 0, Shrunk(box.width), Shrunk(box.height))],
       [dst |-> "mosaicCanvas", src |-> "mosaicCanvas",
        at |-> RectPixels(0, 0, box.width, box.height)],
       [dst |-> "canvas", src |-> "mosaicCanvas",
        at |-> RectPixels(box.x, box.y, box.width, box.height)] >>

\* The three drawImage calls of a face that is on, lines 174, 178 and 186:
\* the context drawn on, the image drawn, and the pixels written.
DrawCalls(box) ==
    << [dst |-> "mosaicCanvas", src |-> "video",
        at |-> RectPixels(0, 0, Shrunk(box.width), Shrunk(box.height))],
       [dst |-> "mosaicCanvas", src |-> "mosaicCanvas",
        at |-> RectPixels(0, 0, box.width, box.height)],
       [dst |-> "canvas", src |-> "mosaicCanvas",
        at |-> RectPixels(box.x, box.y, box.width, box.height) \cap ClipEllipse(box)] >>

\* The pixels of surface s that the calls for a face write.
Written(s, box) ==
    UNION {DrawCalls(box)[c].at : c \in {d \in 1..3 : DrawCalls(box)[d].dst = s}}

\* drawMosaics on pixels: per surface, the pixels written for the faces
\* that are on.
paintMosaics(fs) ==
    [s \in Surfaces |->
        UNION {Written(s, fs[i].box) : i \in {j \in 1..Len(fs) : fs[j].isMosaicOn}}]

----------------------------------------------------------------------------
(* The frame loop: loop, script.js:94-111 *)

\* Mutant: the iteration does not look at the video's state.
LoopAlwaysRuns(p, e) == TRUE

\* Line 95: the iteration goes on unless the video is paused or ended.
LoopRuns(p, e) == ~(p \/ e)

\* The number of loop() iterations that exist.
Iterations == detecting + failing + rafOrphans + (IF rafLive THEN 1 ELSE 0)

\* A call of loop() with video.paused = p and video.ended = e, up to its
\* await: lines 95-102.  The detector rejects a call made before the net is
\* loaded.
LoopCall(p, e) ==
    IF LoopRuns(p, e)
    THEN /\ canvas' = RawFrame
         /\ IF isModelLoaded
            THEN detecting' = detecting + 1 /\ failing' = failing
            ELSE failing' = failing + 1 /\ detecting' = detecting
    ELSE UNCHANGED <<canvas, detecting, failing>>

\* animationId = requestAnimationFrame(loop), line 110: the request the old
\* handle named, if still pending, stays pending without a handle.
RequestFrame ==
    /\ rafLive' = TRUE
    /\ rafOrphans' = IF rafLive THEN rafOrphans + 1 ELSE rafOrphans

\* cancelAnimationFrame(animationId), lines 50 and 54.
CancelFrame ==
    /\ rafLive' = FALSE
    /\ rafOrphans' = rafOrphans

\* updateFaces(detections) of line 105 with its history.
TrackerStep(dets) ==
    /\ faces' = updateFaces(dets, faces)
    /\ detections' = dets
    /\ lost' = lost \cup DroppedOff(dets, faces)
    /\ last' = [op |-> "updateFaces", marks |-> Unmatched(dets, faces)]

\* The detector's promise resolves: lines 102-110.
DetectResolved(dets) ==
    /\ detecting > 0
    /\ detecting' = detecting - 1
    /\ failing' = failing
    /\ TrackerStep(dets)
    /\ canvas' = drawMosaics(canvas, faces')
    /\ RequestFrame
    /\ UNCHANGED <<loadVars, videoVars, prevFaces, painted, pointer, recVars>>

\* The detector's promise rejects: loop() ends at line 102.
DetectRejected ==
    /\ \/ failing > 0 /\ failing' = failing - 1 /\ detecting' = detecting
       \/ detecting > 0 /\ detecting' = detecting - 1 /\ failing' = failing
    /\ last' = Op("rejected")
    /\ UNCHANGED <<loadVars, videoVars, rafLive, rafOrphans, faceVars, recVars>>

\* The browser runs a pending frame request: loop() is called.
FrameCallback ==
    /\ \/ rafLive /\ rafLive' = FALSE /\ rafOrphans' = rafOrphans
       \/ rafOrphans > 0 /\ rafOrphans' = rafOrphans - 1 /\ rafLive' = rafLive
    /\ LoopCall(paused, ended)
    /\ last' = Op("other")
    /\ UNCHANGED <<loadVars, videoVars, faces, prevFaces, painted, pointer, detections,
                   lost, recVars>>

----------------------------------------------------------------------------
(* init, script.js:23-37 *)

LoadSucceeds ==
    /\ ~isModelLoaded /\ ~alerted
    /\ isModelLoaded' = TRUE
    /\ overlayHidden' = TRUE
    /\ alerted' = alerted
    /\ last' = Op("other")
    /\ UNCHANGED <<videoVars, loopVars, faceVars, recVars>>

LoadFails ==
    /\ ~isModelLoaded /\ ~alerted
    /\ alerted' = TRUE
    /\ UNCHANGED <<isModelLoaded, overlayHidden>>
    /\ last' = Op("other")
    /\ UNCHANGED <<videoVars, loopVars, faceVars, recVars>>

----------------------------------------------------------------------------
(* The video: handleVideoUpload (62-70), onVideoLoaded (72-83),            *)
(* togglePlayPause (85-91) and the play, pause and ended listeners         *)
(* (44-56).  The element sets video.paused and dispatches the event; the   *)
(* model takes both as one step.                                           *)

\* Mutant: the handler goes on without a file.
HasFileAlways(files) == TRUE

\* const file = e.target.files[0]; if (!file) return (lines 63-64).
HasFile(files) == Len(files) > 0

\* e.target.files[0]: "none" stands for undefined.
FirstFile(files) == IF Len(files) > 0 THEN files[1] ELSE "none"

\* handleVideoUpload on a change event whose target holds files.  Lines
\* 66-69: setting video.src makes the element load, so it pauses, is no
\* longer ended, and announces its metadata later.
handleVideoUpload(files) ==
    /\ last' = [op |-> "upload", marks |-> {files[i] : i \in 1..Len(files)}]
    /\ IF HasFile(files)
       THEN /\ videoSrc' = FirstFile(files)
            /\ downloadDisabled' = TRUE
            /\ recordedChunks' = <<>>
            /\ paused' = TRUE
            /\ ended' = FALSE
            /\ metadataDue' = TRUE
            /\ isVideoReady' = isVideoReady
            /\ UNCHANGED <<isRecording, mediaRecorder, recorderOptions, recorderState,
                           stopTasks, artifact, artifactOf, delivered>>
       ELSE UNCHANGED <<videoVars, recVars>>
    /\ UNCHANGED <<loadVars, loopVars, faceVars>>

\* The picker was closed without a file.
UploadNothing == handleVideoUpload(<<>>)

UploadFile(file) == handleVideoUpload(<<file>>)

OnVideoLoaded ==
    /\ metadataDue
    /\ metadataDue' = FALSE
    /\ isVideoReady' = TRUE
    /\ canvas' = RawFrame
    /\ last' = Op("other")
    /\ UNCHANGED <<loadVars, videoSrc, paused, ended, loopVars, faces, prevFaces,
                   painted, pointer, detections, lost, recVars>>

\* The controls work once a video is loaded (line 82).
Playable == isVideoReady /\ ~metadataDue

\* video.play() and the play listener, lines 44-47.
PlayListener ==
    /\ paused' = FALSE
    /\ ended' = FALSE
    /\ LoopCall(FALSE, FALSE)

\* togglePlayPause with video.paused, lines 86-87.
PressPlay ==
    /\ Playable /\ paused
    /\ Iterations < MaxLoops
    /\ PlayListener
    /\ last' = Op("other")
    /\ UNCHANGED <<loadVars, videoSrc, isVideoReady, metadataDue, rafLive, rafOrphans,
                   faces, prevFaces, painted, pointer, detections, lost, recVars>>

\* togglePlayPause otherwise, lines 88-89, and the pause listener, 48-51.
PressPause ==
    /\ Playable /\ ~paused
    /\ paused' = TRUE
    /\ CancelFrame
    /\ last' = Op("other")
    /\ UNCHANGED <<loadVars, videoSrc, isVideoReady, metadataDue, ended, detecting,
                   failing, faceVars, recVars>>

----------------------------------------------------------------------------
(* handleCanvasClick, script.js:192-218 *)

\* Mutant: the pointer's offset is taken as the buffer point.
ClickXUnscaled(e, rect) == e.clientX - rect.left

\* Lines 195-199.  The displayed sizes of the model divide the buffer's, so
\* the scale is a whole number.
ScaleX(rect) == CanvasWidth \div rect.width
ScaleY(rect) == CanvasHeight \div rect.height
ClickX(e, rect) == (e.clientX - rect.left) * ScaleX(rect)
ClickY(e, rect) == (e.clientY - rect.top) * ScaleY(rect)

\* Lines 205-206.
Inside(cx, cy, box) ==
    /\ cx >= box.x /\ cx <= box.x + box.width
    /\ cy >= box.y /\ cy <= box.y + box.height

\* Mutant: only the first face holding the point is flipped.
ToggledFirstOnly(fs, cx, cy) ==
    [i \in 1..Len(fs) |->
        IF /\ Inside(cx, cy, fs[i].box)
           /\ \A j \in 1..(i - 1) : ~Inside(cx, cy, fs[j].box)
        THEN [fs[i] EXCEPT !.isMosaicOn = ~fs[i].isMosaicOn]
        ELSE fs[i]]

\* Mutant: the flipped faces are moved behind the others.
ToggledMovedBack(fs, cx, cy) ==
    LET Holds(f) == Inside(cx, cy, f.box)
        Misses(f) == ~Inside(cx, cy, f.box)
        hit == SelectSeq(fs, Holds)
    IN  SelectSeq(fs, Misses)
        \o [i \in 1..Len(hit) |-> [hit[i] EXCEPT !.isMosaicOn = ~hit[i].isMosaicOn]]

\* faces.forEach of lines 203-211.
Toggled(fs, cx, cy) ==
    [i \in 1..Len(fs) |->
        IF Inside(cx, cy, fs[i].box)
        THEN [fs[i] EXCEPT !.isMosaicOn = ~fs[i].isMosaicOn]
        ELSE fs[i]]

ClickedFace(fs, cx, cy) == \E i \in 1..Len(fs) : Inside(cx, cy, fs[i].box)

\* History: the faces whose box holds the point.
Hit(fs, cx, cy) == {i \in 1..Len(fs) : Inside(cx, cy, fs[i].box)}

\* Mutant: the click redraws also while the video plays.
RedrawsWhenClicked(clicked, p) == clicked

\* Line 213.
RedrawsOnClick(clicked, p) == clicked /\ p

\* Mutant: the click flips nothing and draws nothing.
handleCanvasClickLost(e, rect) ==
    /\ faces' = faces
    /\ canvas' = canvas
    /\ last' = [op |-> "click", marks |-> Hit(faces, ClickX(e, rect), ClickY(e, rect))]
    /\ UNCHANGED <<loadVars, videoVars, loopVars, detections, lost, painted, recVars>>

\* The handler on a mousedown e while the canvas is shown at rect.
handleCanvasClick(e, rect) ==
    LET cx == ClickX(e, rect)
        cy == ClickY(e, rect)
    IN  /\ faces' = Toggled(faces, cx, cy)
        /\ canvas' = IF RedrawsOnClick(ClickedFace(faces, cx, cy), paused)
                     THEN drawMosaics(RawFrame, faces')
                     ELSE canvas
        /\ last' = [op |-> "click", marks |-> Hit(faces, cx, cy)]
        /\ UNCHANGED <<loadVars, videoVars, loopVars, detections, lost, painted, recVars>>

CanvasClick(e, rect) ==
    /\ handleCanvasClick(e, rect)
    /\ UNCHANGED <<prevFaces, pointer>>

----------------------------------------------------------------------------
(* Recording: script.js:221-279 *)

\* At most MaxRecordings recorders are constructed.
MaxRecordings == 2
\* The sizes of a recorder's data: line 263 tells only empty from non-empty.
ChunkSizes == {0, 1}

\* stopRecording, lines 255-260: the recorder queues the task that fires
\* dataavailable and then stop.
stopRecording ==
    /\ stopTasks' = Append(stopTasks, mediaRecorder)
    /\ recorderState' = [recorderState EXCEPT ![mediaRecorder] = "inactive"]
    /\ isRecording' = FALSE

\* Playback reaches the end: the element sets video.paused and video.ended
\* and fires pause and ended, so the listeners of lines 48-51 and 52-56 run.
VideoEnded ==
    /\ Playable /\ ~paused /\ ~ended
    /\ paused' = TRUE
    /\ ended' = TRUE
    /\ CancelFrame
    /\ IF isRecording THEN stopRecording ELSE UNCHANGED <<stopTasks, recorderState, isRecording>>
    /\ last' = Op("other")
    /\ UNCHANGED <<loadVars, videoSrc, isVideoReady, metadataDue, detecting,
                   failing, faceVars, mediaRecorder, recorderOptions, recordedChunks,
                   artifact, artifactOf, delivered, downloadDisabled>>

\* The constructors of lines 235 and 238.
Constructors == {"vp9", "default"}

\* Mutant: no fallback, the exception of the first constructor leaves the
\* handler.
NewRecorderOrThrow(throwing) ==
    IF "vp9" \notin throwing THEN "vp9" ELSE "none"

\* The try and catch of lines 234-239 when the constructors in throwing
\* throw: the options of the recorder made, "none" when the exception of
\* line 238 leaves the handler.
NewRecorder(throwing) ==
    IF "vp9" \notin throwing THEN "vp9"
    ELSE IF "default" \notin throwing THEN "default"
    ELSE "none"

\* startRecording, lines 229-253, called by toggleRecording when not
\* recording (lines 222-225).
startRecording(throwing) ==
    LET made == NewRecorder(throwing)
    IN  /\ Playable /\ ~isRecording
        /\ last' = [op |-> "startRecording", marks |-> throwing]
        /\ IF made = "none"
           THEN UNCHANGED <<paused, ended, canvas, detecting, failing, recVars>>
           ELSE /\ Len(recorderOptions) < MaxRecordings
                /\ paused => Iterations < MaxLoops
                /\ recorderOptions' = Append(recorderOptions, made)
                /\ recorderState' = Append(recorderState, "recording")
                /\ delivered' = Append(delivered, <<>>)
                /\ mediaRecorder' = Len(recorderOptions) + 1
                /\ isRecording' = TRUE
                /\ IF paused
                   THEN PlayListener
                   ELSE UNCHANGED <<paused, ended, canvas, detecting, failing>>
                /\ UNCHANGED <<stopTasks, recordedChunks, artifact, artifactOf,
                               downloadDisabled>>
        /\ UNCHANGED <<loadVars, videoSrc, isVideoReady, metadataDue, rafLive, rafOrphans,
                       faces, prevFaces, painted, pointer, detections, lost>>

\* A recorder is constructed: with the vp9 options, or without options
\* after that threw.
StartRecording(withOptions) ==
    startRecording(IF withOptions THEN {} ELSE {"vp9"})

\* The fallback constructor of line 238 throws too.
StartRecordingFails ==
    startRecording(Constructors)

\* toggleRecording while recording, lines 222-223.
StopRecording ==
    /\ isRecording
    /\ stopRecording
    /\ last' = Op("other")
    /\ UNCHANGED <<loadVars, videoVars, loopVars, faceVars, mediaRecorder,
                   recorderOptions, recordedChunks, artifact, artifactOf, delivered,
                   downloadDisabled>>

\* handleDataAvailable, lines 262-266.
handleDataAvailable(chunks, data) ==
    IF data.size > 0 THEN Append(chunks, data) ELSE chunks

\* new Blob(recordedChunks) of line 269.
handleStop(chunks) == chunks

\* The task a stopped recorder queued: dataavailable, then stop.
RecorderStops(size) ==
    /\ stopTasks # <<>>
    /\ LET r == Head(stopTasks)
           data == [recorder |-> r, size |-> size]
       IN  /\ recordedChunks' = handleDataAvailable(recordedChunks, data)
           /\ artifact' = handleStop(recordedChunks')
           /\ artifactOf' = r
           /\ delivered' = [delivered EXCEPT ![r] = handleDataAvailable(@, data)]
    /\ stopTasks' = Tail(stopTasks)
    /\ downloadDisabled' = FALSE
    /\ last' = Op("other")
    /\ UNCHANGED <<loadVars, videoVars, loopVars, faceVars, isRecording,
                   mediaRecorder, recorderOptions, recorderState>>

----------------------------------------------------------------------------
(* The whole page on a video in which the detector finds no face. *)

NoFaces == <<>>

Next ==
    \/ LoadSucceeds
    \/ LoadFails
    \/ UploadNothing
    \/ \E file \in Files : UploadFile(file)
    \/ OnVideoLoaded
    \/ PressPlay
    \/ PressPause
    \/ VideoEnded
    \/ DetectResolved(NoFaces)
    \/ DetectRejected
    \/ FrameCallback
    \/ \E withOptions \in BOOLEAN : StartRecording(withOptions)
    \/ StartRecordingFails
    \/ StopRecording
    \/ \E size \in ChunkSizes : RecorderStops(size)

Spec == Init /\ [][Next]_vars

----------------------------------------------------------------------------
(* The frame loop on faces, with clicks, from the state in which the model *)
(* and a video are loaded and the video is paused on its first frame.      *)

InitLoaded ==
    /\ faces = <<>>
    /\ isModelLoaded = TRUE
    /\ overlayHidden = TRUE
    /\ alerted = FALSE
    /\ videoSrc = "clipA"
    /\ isVideoReady = TRUE
    /\ metadataDue = FALSE
    /\ paused = TRUE
    /\ ended = FALSE
    /\ detecting = 0
    /\ failing = 0
    /\ rafLive = FALSE
    /\ rafOrphans = 0
    /\ canvas = {}
    /\ prevFaces = <<>>
    /\ detections = <<>>
    /\ lost = {}
    /\ painted = NoPaint
    /\ pointer = <<>>
    /\ last = Op("other")
    /\ isRecording = FALSE
    /\ mediaRecorder = 0
    /\ recorderOptions = <<>>
    /\ recorderState = <<>>
    /\ stopTasks = <<>>
    /\ recordedChunks = <<>>
    /\ artifact = <<>>
    /\ artifactOf = 0
    /\ delivered = <<>>
    /\ downloadDisabled = TRUE

NextFaces ==
    \/ PressPlay
    \/ PressPause
    \/ VideoEnded
    \/ \E dets \in SeqsUpTo(FrameBoxes, MaxFaces) : DetectResolved(dets)
    \/ DetectRejected
    \/ FrameCallback
    \/ \E rect \in DisplayRects : \E e \in ClientPoints(rect) : CanvasClick(e, rect)

SpecFaces == InitLoaded /\ [][NextFaces]_vars

----------------------------------------------------------------------------
(* The tracker alone: updateFaces applied to every bounded collection of   *)
(* previous faces and every bounded list of detections.                    *)

InitTrack ==
    /\ faces \in SeqsUpTo(FaceRecords(TrackBoxes), MaxFaces)
    /\ InitOthers

Track ==
    \E dets \in SeqsUpTo(TrackBoxes, MaxFaces) :
        /\ last.op = "none"
        /\ TrackerStep(dets)
        /\ prevFaces' = faces
        /\ UNCHANGED <<loadVars, videoVars, loopVars, canvas, painted, pointer, recVars>>

SpecTrack == InitTrack /\ [][Track]_vars

----------------------------------------------------------------------------
(* The click handler alone: handleCanvasClick applied to every bounded     *)
(* collection of tracked faces, at every displayed size and pointer        *)
(* position.                                                               *)

InitClick ==
    /\ faces \in SeqsUpTo(FaceRecords(TrackBoxes), MaxFaces)
    /\ InitOthers

PointerClick ==
    \E rect \in DisplayRects : \E e \in ClientPoints(rect) :
        /\ last.op = "none"
        /\ handleCanvasClick(e, rect)
        /\ prevFaces' = faces
        /\ pointer' = [e |-> e, rect |-> rect]

SpecClick == InitClick /\ [][PointerClick]_vars

----------------------------------------------------------------------------
(* A tick and a click after it: updateFaces on previous faces at the       *)
(* detector's boxes, then handleCanvasClick on the tracked faces it made.  *)

InitTick ==
    /\ faces \in SeqsUpTo(FaceRecords(FrameBoxes), MaxFaces)
    /\ InitOthers

ClickAfterTick ==
    \E rect \in DisplayRects : \E e \in ClientPoints(rect) :
        /\ last.op = "updateFaces"
        /\ CanvasClick(e, rect)

SpecTick == InitTick /\ [][Track \/ ClickAfterTick]_vars

----------------------------------------------------------------------------
(* A click while a detector call is pending, and the call's result: from   *)
(* the state in which the video plays, the iteration has drawn the raw     *)
(* frame and waits at line 102, and faces holds what earlier ticks and     *)
(* clicks left.                                                            *)

InitPending ==
    /\ faces \in SeqsUpTo(FaceRecords(FrameBoxes), MaxFaces)
    /\ isModelLoaded = TRUE
    /\ overlayHidden = TRUE
    /\ alerted = FALSE
    /\ videoSrc = "clipA"
    /\ isVideoReady = TRUE
    /\ metadataDue = FALSE
    /\ paused = FALSE
    /\ ended = FALSE
    /\ detecting = 1
    /\ failing = 0
    /\ rafLive = FALSE
    /\ rafOrphans = 0
    /\ canvas = RawFrame
    /\ prevFaces = <<>>
    /\ detections = <<>>
    /\ lost = {}
    /\ painted = NoPaint
    /\ pointer = <<>>
    /\ last = NoOp
    /\ isRecording = FALSE
    /\ mediaRecorder = 0
    /\ recorderOptions = <<>>
    /\ recorderState = <<>>
    /\ stopTasks = <<>>
    /\ recordedChunks = <<>>
    /\ artifact = <<>>
    /\ artifactOf = 0
    /\ delivered = <<>>
    /\ downloadDisabled = TRUE

ResultAfterClick ==
    \E dets \in SeqsUpTo(FrameBoxes, MaxFaces) :
        /\ last.op = "click"
        /\ DetectResolved(dets)

SpecPending == InitPending /\ [][PointerClick \/ ResultAfterClick]_vars

----------------------------------------------------------------------------
(* The compositor alone: drawMosaics applied to every bounded collection   *)
(* of tracked faces.                                                       *)

InitPixels ==
    /\ faces \in SeqsUpTo(FaceRecords(PixelBoxes), MaxFaces)
    /\ InitOthers

Composite ==
    /\ last.op = "none"
    /\ canvas' = drawMosaics(canvas, faces)
    /\ painted' = paintMosaics(faces)
    /\ last' = Op("drawMosaics")
    /\ UNCHANGED <<loadVars, videoVars, loopVars, faces, prevFaces, detections, lost,
                   pointer, recVars>>

SpecPixels == InitPixels /\ [][Composite]_vars

----------------------------------------------------------------------------
(* The frame loop of Spec under the scheduling the browser gives: a        *)
(* detector promise settles, and a pending frame request is run.           *)

DetectSettles == DetectResolved(NoFaces) \/ DetectRejected

SpecLive == Spec /\ WF_vars(DetectSettles) /\ WF_vars(FrameCallback)

----------------------------------------------------------------------------
(* Claims *)

Stopped == paused \/ ended

\* Previous face k is the face the scan of a detection at box settles on:
\* none is closer and none before it is as close.
NearestFirst(k, box, fs) ==
    \A j \in 1..Len(fs) :
        /\ Dist2(box, fs[j].box) >= Dist2(box, fs[k].box)
        /\ j < k => Dist2(box, fs[j].box) > Dist2(box, fs[k].box)

\* C1 as stated: after updateFaces, every detection whose centre is within
\* 1.5 * max(width, height) of the centre of a previous face that is switched
\* off yields a face that is switched off, whatever else the previous
\* collection holds.
C1_AnyFaceInReach ==
    last.op = "updateFaces" =>
        \A i \in 1..Len(detections) : \A k \in 1..Len(prevFaces) :
            ( /\ ~prevFaces[k].isMosaicOn
              /\ UnderThreshold(Dist2(detections[i], prevFaces[k].box), detections[i]) )
            => ~faces[i].isMosaicOn

\* C1 amended: after updateFaces, every detection D whose nearest previous
\* face (the first at the least centre distance) is switched off and less
\* than 1.5 * max(D.width, D.height) away yields a face that is switched off.
C1_TogglePersistence ==
    last.op = "updateFaces" =>
        \A i \in 1..Len(detections) : \A k \in 1..Len(prevFaces) :
            ( /\ ~prevFaces[k].isMosaicOn
              /\ NearestFirst(k, detections[i], prevFaces)
              /\ UnderThreshold(Dist2(detections[i], prevFaces[k].box), detections[i]) )
            => /\ Len(faces) >= i
               /\ ~faces[i].isMosaicOn

\* A switched-off face is the nearest of two previous faces, in reach of a
\* detection at another box, and the tracked face made for it is off.
C1_Witness ==
    /\ last.op = "updateFaces"
    /\ Len(prevFaces) = 2
    /\ \E i \in 1..Len(detections) : \E k \in 1..2 :
        /\ ~prevFaces[k].isMosaicOn
        /\ prevFaces[3 - k].isMosaicOn
        /\ prevFaces[k].box # detections[i]
        /\ NearestFirst(k, detections[i], prevFaces)
        /\ UnderThreshold(Dist2(detections[i], prevFaces[k].box), detections[i])
        /\ ~faces[i].isMosaicOn

\* C2: after updateFaces, every detection with no previous face under the
\* match threshold has a tracked face with the mosaic on, whatever the
\* toggles of the previous faces are (the first tick's detections too).
C2_DefaultOn ==
    last.op = "updateFaces" =>
        \A i \in 1..Len(detections) :
            (\A k \in 1..Len(prevFaces) :
                ~UnderThreshold(Dist2(detections[i], prevFaces[k].box), detections[i]))
            => /\ Len(faces) >= i
               /\ faces[i].isMosaicOn

\* Every previous face is switched off, one detection is out of reach of all
\* of them and its face is on, while another detection took a toggle over.
C2_Witness ==
    /\ last.op = "updateFaces"
    /\ Len(prevFaces) > 0
    /\ \A k \in 1..Len(prevFaces) : ~prevFaces[k].isMosaicOn
    /\ \E i \in 1..Len(detections) :
        /\ \A k \in 1..Len(prevFaces) :
            ~UnderThreshold(Dist2(detections[i], prevFaces[k].box), detections[i])
        /\ faces[i].isMosaicOn
    /\ \E i \in 1..Len(faces) : ~faces[i].isMosaicOn

\* C3: after every tick the tracked faces are no more than the tick's
\* detections (a face no detection matched has no entry: no grace period),
\* and a detection that matches no current face yields a face with the mosaic
\* on also at a box where a switched-off face was dropped before.
C3_ResetOnLoss ==
    last.op = "updateFaces" =>
        /\ Len(faces) = Len(detections)
        /\ \A i \in last.marks :
            detections[i] \in lost => faces[i].isMosaicOn

\* A detection at the box of a switched-off face dropped at an earlier tick
\* matched no current face, though there is one, and its face is on.
C3_Witness ==
    /\ last.op = "updateFaces"
    /\ Len(faces) = 2
    /\ \E i \in last.marks :
        /\ detections[i] \in lost
        /\ faces[i].isMosaicOn
    /\ \E i \in 1..Len(faces) : i \notin last.marks

\* C4: a click flips the toggle of every face whose box holds the point and
\* of no other face, and keeps every box and the number and order of the
\* faces; a click outside all boxes changes no toggle.
C4_ClickToggles ==
    [][last'.op = "click" =>
        /\ Len(faces') = Len(faces)
        /\ \A i \in 1..Len(faces) :
            /\ faces'[i].box = faces[i].box
            /\ faces'[i].isMosaicOn =
                 IF i \in last'.marks THEN ~faces[i].isMosaicOn ELSE faces[i].isMosaicOn
        /\ last'.marks = {} => faces' = faces]_vars

\* A click on a point that two boxes hold has acted.
C4_Witness ==
    /\ last.op = "click"
    /\ Cardinality(last.marks) = 2
    /\ faces[1].box # faces[2].box

\* C5 as stated: at most one detector call is in flight at any time.
C5_OneDetectionInFlight == detecting + failing <= 1

\* C6 as stated: a detector result that arrives while the video is paused or
\* ended changes neither the tracked faces nor the canvas and schedules no
\* frame.
C6_StrayResultDropped ==
    [][(Stopped /\ detecting' < detecting) =>
        /\ faces' = faces
        /\ canvas' = canvas
        /\ rafLive' = rafLive
        /\ rafOrphans' = rafOrphans]_vars

\* C7: once the video is paused or ended, unless it is played again, the
\* loop stops: in the end no detector call is in flight and no frame request
\* is pending; and no step invokes the detector while the video is paused or
\* ended.
C7_LoopStops ==
    /\ Stopped ~> (~Stopped \/ Iterations = 0)
    /\ [][detecting' + failing' > detecting + failing => ~(paused' \/ ended')]_vars

\* The video is paused while a detector call is in flight and a frame
\* request is pending.
C7_Witness ==
    /\ Stopped
    /\ detecting > 0
    /\ rafLive

\* C8 as stated: no step invokes the detector while isModelLoaded is false.
C8_DetectorAfterLoad ==
    [][detecting' + failing' > detecting + failing => isModelLoaded]_vars

\* C9: in every state the tracked faces are one entry per detection of the
\* last tick, in the detections' order, entry i holding the box of detection
\* i: neither a tick nor a click moves a toggle to another box.
C9_CountAndAlignment ==
    /\ Len(faces) = Len(detections)
    /\ \A i \in 1..Len(faces) : faces[i].box = detections[i]

\* A click has flipped the second of two faces at different boxes while a
\* detector call is in flight.
C9_Witness ==
    /\ last.op = "click"
    /\ last.marks = {2}
    /\ Len(faces) = 2
    /\ faces[1].box # faces[2].box
    /\ faces[1].isMosaicOn # faces[2].isMosaicOn
    /\ detecting > 0

\* C10 as stated: the artifact a recorder's stop builds is the list of the
\* non-empty chunks that recorder delivered.
C10_ArtifactOfRecording ==
    artifactOf # 0 => artifact = delivered[artifactOf]

\* C11: a click that flips at least one toggle while the video is paused
\* leaves the canvas as the raw frame with a mosaic on exactly the faces that
\* are switched on after the click, in the click's own step; a click while
\* the video plays, or one that flips nothing, leaves the canvas as it was.
C11_PausedClickFeedback ==
    [][last'.op = "click" =>
        IF last'.marks # {} /\ paused
        THEN canvas' = {faces'[i].box : i \in {j \in 1..Len(faces') : faces'[j].isMosaicOn}}
        ELSE canvas' = canvas]_vars

\* A click on the paused video has switched one of two faces off, no loop
\* iteration exists, and the canvas shows the mosaic of the other face only.
C11_Witness ==
    /\ last.op = "click"
    /\ paused
    /\ Iterations = 0
    /\ Len(faces) = 2
    /\ \E i \in last.marks : ~faces[i].isMosaicOn
    /\ \E i \in 1..2 : faces[i].isMosaicOn /\ canvas = {faces[i].box}
    /\ faces[1].box # faces[2].box

\* Pixel p lies within box R.
WithinBox(p, R) ==
    /\ R.x <= p[1] /\ p[1] + 1 <= R.x + R.width
    /\ R.y <= p[2] /\ p[2] + 1 <= R.y + R.height

\* Pixel p holds a point inside the ellipse centred on R with half-width
\* 0.8 * R.width / 2 and half-height R.height / 2: its point nearest to the
\* centre is (ten times the offsets, squared and cleared of fractions).
WithinEllipse(p, R) ==
    LET Off(c20, q) ==
            IF 20 * q > c20 THEN 20 * q - c20
            ELSE IF 20 * (q + 1) < c20 THEN c20 - 20 * (q + 1)
            ELSE 0
        ox == Off(20 * R.x + 10 * R.width, p[1])
        oy == Off(20 * R.y + 10 * R.height, p[2])
        a == 8 * R.width
        b == 10 * R.height
    IN  ox * ox * b * b + oy * oy * a * a < a * a * b * b

\* C12: every output-canvas pixel a drawMosaics run writes lies within the
\* box of a face that is on and within the ellipse centred on that box with
\* half-width 0.8 * width / 2 and half-height height / 2, so every pixel
\* outside the boxes is as before; and no pixel of the video is written.
C12_PixelationContainment ==
    last.op = "drawMosaics" =>
        /\ \A p \in painted["canvas"] :
              \E i \in 1..Len(faces) :
                  /\ faces[i].isMosaicOn
                  /\ WithinBox(p, faces[i].box)
                  /\ WithinEllipse(p, faces[i].box)
        /\ painted["video"] = {}

\* drawMosaics has drawn two faces at different boxes and left a pixel of
\* one of the boxes (outside the ellipse) and a pixel outside both boxes
\* unwritten.
C12_Witness ==
    /\ last.op = "drawMosaics"
    /\ Len(faces) = 2
    /\ faces[1].isMosaicOn /\ faces[2].isMosaicOn
    /\ faces[1].box # faces[2].box
    /\ \A i \in 1..2 : \E p \in painted["canvas"] : WithinBox(p, faces[i].box)
    /\ \E p \in Pixels \ painted["canvas"] : WithinBox(p, faces[1].box)
    /\ \E p \in Pixels \ painted["canvas"] :
          ~WithinBox(p, faces[1].box) /\ ~WithinBox(p, faces[2].box)

\* C13: a click at the display point (dx, dy) = (clientX - left,
\* clientY - top) of a canvas shown at size (dw, dh) with a buffer of size
\* (bw, bh) flips exactly the faces whose box holds the buffer point
\* (dx * bw / dw, dy * bh / dh), edges included, at scale 1 and at scale 2.
\* The comparisons are multiplied by dw and dh.
C13_CoordinateScaling ==
    last.op = "click" =>
        LET dw == pointer.rect.width
            dh == pointer.rect.height
            dxbw == (pointer.e.clientX - pointer.rect.left) * CanvasWidth
            dybh == (pointer.e.clientY - pointer.rect.top) * CanvasHeight
            Holds(R) == /\ dxbw >= R.x * dw /\ dxbw <= (R.x + R.width) * dw
                        /\ dybh >= R.y * dh /\ dybh <= (R.y + R.height) * dh
        IN  /\ Len(faces) = Len(prevFaces)
            /\ \A i \in 1..Len(faces) :
                  /\ faces[i].box = prevFaces[i].box
                  /\ (faces[i].isMosaicOn # prevFaces[i].isMosaicOn) <=> Holds(faces[i].box)

\* On a canvas shown at half its size a click one display pixel from the
\* left edge has flipped a face whose box does not hold x = 1 and has left
\* alone a face whose box does.
C13_Witness ==
    /\ last.op = "click"
    /\ 2 * pointer.rect.width = CanvasWidth
    /\ pointer.e.clientX - pointer.rect.left = 1
    /\ Len(faces) = 2
    /\ \E i \in 1..2 :
          /\ faces[i].isMosaicOn # prevFaces[i].isMosaicOn
          /\ faces[i].box.x + faces[i].box.width >= 2
          /\ faces[i].box.x > 1
          /\ faces[3 - i].isMosaicOn = prevFaces[3 - i].isMosaicOn
          /\ faces[3 - i].box.x <= 1
          /\ faces[3 - i].box.x + faces[3 - i].box.width < 2

\* C14: a startRecording in which the vp9 constructor throws and the
\* fallback does not makes a new recorder without options, starts it and sets
\* isRecording; one in which both throw makes no recorder, starts none and
\* leaves isRecording false, as every other part of the state.
C14_RecorderFallback ==
    [][last'.op = "startRecording" =>
        /\ last'.marks = {"vp9"} =>
              /\ Len(recorderOptions') = Len(recorderOptions) + 1
              /\ mediaRecorder' = Len(recorderOptions')
              /\ recorderOptions'[mediaRecorder'] = "default"
              /\ recorderState'[mediaRecorder'] = "recording"
              /\ isRecording'
        /\ last'.marks = Constructors =>
              /\ ~isRecording'
              /\ recorderOptions' = recorderOptions
              /\ recorderState' = recorderState
              /\ mediaRecorder' = mediaRecorder
              /\ <<videoVars, loopVars, faceVars>>' = <<videoVars, loopVars, faceVars>>]_vars

\* After a recording made with the fallback recorder was stopped, a
\* startRecording in which both constructors threw has left that recorder in
\* place, inactive, and isRecording false.
C14_Witness ==
    /\ last.op = "startRecording"
    /\ last.marks = Constructors
    /\ ~isRecording
    /\ mediaRecorder = 1
    /\ recorderOptions = <<"default">>
    /\ recorderState = <<"inactive">>

\* C15: a change event of the file picker without a file changes nothing:
\* the video's source and play state, the download button, the recorded
\* chunks, the tracked faces and the loop's iterations are as before.
C15_NoFileNoOp ==
    [][(last'.op = "upload" /\ last'.marks = {}) =>
        <<loadVars, videoVars, loopVars, faceVars, recVars>>'
            = <<loadVars, videoVars, loopVars, faceVars, recVars>>]_vars

\* The picker was closed without a file while a video played with a
\* detector call in flight, after a recording was made: the video, the
\* chunks and the enabled download button are still there.
C15_Witness ==
    /\ last.op = "upload"
    /\ last.marks = {}
    /\ videoSrc # "none"
    /\ ~paused
    /\ detecting > 0
    /\ recordedChunks # <<>>
    /\ ~downloadDisabled

\* C16: after updateFaces, for every detection D: with no previous face the
\* tracked face is on; otherwise, with F the previous face at the least
\* centre distance d, the first such in the collection's order, the tracked
\* face has F's toggle if d < 1.5 * max(D.width, D.height) and is on if not,
\* so also at d equal to the threshold (4 d^2 against 9 max^2).
C16_NearestCentroidRule ==
    last.op = "updateFaces" =>
        /\ Len(faces) = Len(detections)
        /\ \A i \in 1..Len(detections) :
            LET D == detections[i]
                m == IF D.width >= D.height THEN D.width ELSE D.height
            IN  /\ prevFaces = <<>> => faces[i].isMosaicOn
                /\ \A k \in 1..Len(prevFaces) :
                      NearestFirst(k, D, prevFaces) =>
                          faces[i].isMosaicOn =
                              IF Dist2(D, prevFaces[k].box) < 9 * m * m
                              THEN prevFaces[k].isMosaicOn
                              ELSE TRUE

\* Of two previous faces, the first off and the second on, one detection
\* has both at the same distance under its threshold and came out off, and
\* another has the first nearest at exactly its threshold and came out on.
C16_Witness ==
    /\ last.op = "updateFaces"
    /\ Len(prevFaces) = 2
    /\ ~prevFaces[1].isMosaicOn /\ prevFaces[2].isMosaicOn
    /\ \E i \in 1..Len(detections) :
          /\ Dist2(detections[i], prevFaces[1].box) = Dist2(detections[i], prevFaces[2].box)
          /\ Dist2(detections[i], prevFaces[1].box)
               < 9 * detections[i].width * detections[i].width
          /\ ~faces[i].isMosaicOn
    /\ \E j \in 1..Len(detections) :
          /\ NearestFirst(1, detections[j], prevFaces)
          /\ detections[j].width >= detections[j].height
          /\ Dist2(detections[j], prevFaces[1].box)
               = 9 * detections[j].width * detections[j].width
          /\ faces[j].isMosaicOn

\* Detections i and j of the last tick both had previous face k nearest
\* (the first at the least distance) and under their thresholds.
SharePrevious(i, j, k) ==
    /\ i # j
    /\ NearestFirst(k, detections[i], prevFaces)
    /\ NearestFirst(k, detections[j], prevFaces)
    /\ UnderThreshold(Dist2(detections[i], prevFaces[k].box), detections[i])
    /\ UnderThreshold(Dist2(detections[j], prevFaces[k].box), detections[j])

\* C17: two detections of a tick that both have the same previous face
\* nearest within their thresholds both yield a tracked face with that
\* face's toggle; and after a click that follows the tick and hits the box
\* of one of the two only, that one has the opposite toggle and the other
\* still has the previous face's.
C17_ManyToOne ==
    \A i, j \in 1..Len(detections) : \A k \in 1..Len(prevFaces) :
        SharePrevious(i, j, k) =>
            /\ last.op = "updateFaces" =>
                  /\ faces[i].isMosaicOn = prevFaces[k].isMosaicOn
                  /\ faces[j].isMosaicOn = prevFaces[k].isMosaicOn
            /\ (last.op = "click" /\ i \in last.marks /\ j \notin last.marks) =>
                  /\ faces[i].isMosaicOn = ~prevFaces[k].isMosaicOn
                  /\ faces[j].isMosaicOn = prevFaces[k].isMosaicOn

\* Two detections at different boxes took the toggle of the same switched-
\* off face, and a click in the box of the first has switched it on while
\* the second is still off.
C17_Witness ==
    /\ last.op = "click"
    /\ last.marks = {1}
    /\ Len(faces) = 2
    /\ faces[1].box # faces[2].box
    /\ \E k \in 1..Len(prevFaces) :
          /\ SharePrevious(1, 2, k)
          /\ ~prevFaces[k].isMosaicOn
    /\ faces[1].isMosaicOn
    /\ ~faces[2].isMosaicOn

\* C18: a step in which drawMosaics runs (a loop iteration's tick, or a
\* click that hit a face while the video is paused, which redraws the raw
\* frame first) adds to what the canvas showed before the run a mosaic at
\* the box of every tracked face that is on after the step and nothing else,
\* and the tracked faces are as the tick or the click made them: one per
\* detection at its box, or the faces before with the hit toggles flipped.
C18_CompositeSelection ==
    [][(\/ last'.op = "updateFaces"
        \/ (last'.op = "click" /\ last'.marks # {} /\ paused)) =>
        LET before == IF last'.op = "click" THEN {} ELSE canvas
            on == {faces'[i].box : i \in {j \in 1..Len(faces') : faces'[j].isMosaicOn}}
        IN  /\ on \subseteq canvas'
            /\ canvas' \ before \subseteq on
            /\ last'.op = "updateFaces" =>
                  /\ Len(faces') = Len(detections')
                  /\ \A i \in 1..Len(faces') : faces'[i].box = detections'[i]
            /\ last'.op = "click" =>
                  /\ Len(faces') = Len(faces)
                  /\ \A i \in 1..Len(faces) :
                        /\ faces'[i].box = faces[i].box
                        /\ (faces'[i].isMosaicOn # faces[i].isMosaicOn) <=> i \in last'.marks]_vars

\* A tick has made two faces at different boxes, the first off (so taken
\* over from a face switched off by a click) and the second on, and the
\* canvas carries the second's mosaic only.
C18_Witness ==
    /\ last.op = "updateFaces"
    /\ Len(faces) = 2
    /\ ~faces[1].isMosaicOn
    /\ faces[2].isMosaicOn
    /\ faces[1].box # faces[2].box
    /\ canvas = {faces[2].box}

\* C19 as stated: a step in which a detector call fails changes neither the
\* tracked faces nor the canvas and requests no frame; and after it, while
\* the video plays on, the next step starts no detector call.
C19_LoopEndsOnFailure ==
    [][/\ last'.op = "rejected" =>
            /\ faces' = faces
            /\ canvas' = canvas
            /\ rafLive' = rafLive
            /\ rafOrphans' = rafOrphans
       /\ (last.op = "rejected" /\ ~Stopped /\ ~Stopped') =>
            detecting' + failing' <= detecting + failing]_vars

\* The click recorded in pointer held the box of face k of prevFaces, the
\* faces before the click.
FlippedByPointer(k) ==
    LET bx == (pointer.e.clientX - pointer.rect.left) * (CanvasWidth \div pointer.rect.width)
        by == (pointer.e.clientY - pointer.rect.top) * (CanvasHeight \div pointer.rect.height)
        R == prevFaces[k].box
    IN  /\ R.x <= bx /\ bx <= R.x + R.width
        /\ R.y <= by /\ by <= R.y + R.height

\* C20: when a click has flipped face F while a detector call was pending
\* and the call's result holds a detection matched to F (F nearest, first at
\* the least distance, under the threshold), the tracked face made for that
\* detection has the flipped toggle, and the composite of the same tick
\* shows a mosaic at its box if it is on and none if it is off (unless
\* another face that is on has the same box).
C20_ClickNotLost ==
    last.op = "updateFaces" =>
        \A i \in 1..Len(detections) : \A k \in 1..Len(prevFaces) :
            ( /\ FlippedByPointer(k)
              /\ NearestFirst(k, detections[i], prevFaces)
              /\ UnderThreshold(Dist2(detections[i], prevFaces[k].box), detections[i]) )
            => /\ faces[i].isMosaicOn = ~prevFaces[k].isMosaicOn
               /\ faces[i].isMosaicOn => faces[i].box \in canvas
               /\ ( /\ ~faces[i].isMosaicOn
                     /\ \A j \in 1..Len(faces) :
                           faces[j].isMosaicOn => faces[j].box # faces[i].box )
                  => faces[i].box \notin canvas

\* A click switched the first of two faces off while the call was pending;
\* the result held a detection next to its box, whose face is off and has
\* no mosaic, and one at the other face, whose mosaic is drawn.
C20_Witness ==
    /\ last.op = "updateFaces"
    /\ Len(prevFaces) = 2
    /\ prevFaces[1].isMosaicOn /\ prevFaces[2].isMosaicOn
    /\ FlippedByPointer(1) /\ ~FlippedByPointer(2)
    /\ Len(faces) = 2
    /\ NearestFirst(1, detections[1], prevFaces)
    /\ detections[1] # prevFaces[1].box
    /\ UnderThreshold(Dist2(detections[1], prevFaces[1].box), detections[1])
    /\ ~faces[1].isMosaicOn
    /\ faces[2].isMosaicOn
    /\ canvas = {faces[2].box}

====
